---- MODULE Spec2Model ----
(***************************************************************************)
(* A state-machine model of the two programs of the repository:            *)
(*                                                                         *)
(*   - src/osdu/identity/_credential/msal_interactive.py: the interactive  *)
(*     and device-code credentials (one shared refresh/cache base) and the *)
(*     on-behalf-of adapter that wraps one of them;                        *)
(*   - scripts/license_verify.py: the license header checker.              *)
(*                                                                         *)
(* The MSAL library, the HTTP endpoint and the user are the environment:   *)
(* what they answer is drawn from small sets (Env, Responses).  A Python   *)
(* call is modelled by an operator that returns a record holding the       *)
(* exception it raised (NoExc when it returned), what it returned, the     *)
(* objects it changed, and the sequence of calls it made ("events").       *)
(***************************************************************************)
EXTENDS Naturals, Sequences, FiniteSets, TLC

VARIABLES
    cred,                 \* the credential instance: configuration and __access_token
    fs,                   \* the token cache file on disk
    calls,                \* number of top-level get_token() calls made so far
    nGetToken,            \* get_token() invocations on the credential, over all calls
    nRefresh,             \* refresh_access_token() invocations, over all calls
    last,                 \* what the most recent top-level call did
    tree,                 \* license checker: the files under ROOT_DIR
    pc,                   \* license checker: "start" | "exited"
    files_without_header, \* license checker: main's list of file paths
    exit_code             \* license checker: the process exit code

vars == <<cred, fs, calls, nGetToken, nRefresh, last,
          tree, pc, files_without_header, exit_code>>

credVars == <<cred, fs, calls, nGetToken, nRefresh, last>>
licenseVars == <<tree, pc, files_without_header, exit_code>>

(***************************************************************************)
(* Bounds                                                                  *)
(***************************************************************************)
MaxCalls == 3
MaxTextLen == 3

(***************************************************************************)
(* Python values                                                           *)
(***************************************************************************)
None == "None"
Absent == "<absent>"          \* a key that is not in a dict
NoExc == "<no exception>"

Accounts == {"alice", "bob"}

Count(seq, e) == Cardinality({i \in DOMAIN seq : seq[i] = e})
Has(seq, e) == \E i \in DOMAIN seq : seq[i] = e
\* the position of the first e in seq, 0 when there is none
IndexOf(seq, e) == IF Has(seq, e) THEN CHOOSE i \in DOMAIN seq : seq[i] = e /\ \A j \in 1..(i - 1) : seq[j] # e ELSE 0

\* A token result of MSAL: None, or a dict that holds "access_token" or "error".
NoneResult == [isNone |-> TRUE, access_token |-> Absent, error |-> Absent]
TokenResult(t) == [isNone |-> FALSE, access_token |-> t, error |-> Absent]
ErrorResult == [isNone |-> FALSE, access_token |-> Absent, error |-> "invalid_grant"]
\* Python truthiness of a result: None and the empty dict are falsy.
Truthy(result) == ~result.isNone /\ (result.access_token # Absent \/ result.error # Absent)

(***************************************************************************)
(* The token cache: msal.SerializableTokenCache and its file               *)
(***************************************************************************)
NoFile == [exists |-> FALSE, accounts |-> <<>>, gen |-> 0]

SerializableTokenCache == [accounts |-> <<>>, gen |-> 0, has_state_changed |-> FALSE]

deserialize(cache, blob) == [accounts |-> blob.accounts, gen |-> blob.gen, has_state_changed |-> FALSE]

serialize(cache) == [exists |-> TRUE, accounts |-> cache.accounts, gen |-> cache.gen]

\* the cache after MSAL modified it: new token material, and the flag set
Modified(cache) == [cache EXCEPT !.gen = @ + 1, !.has_state_changed = TRUE]

AddAccount(cache, a) == IF Has(cache.accounts, a) THEN cache ELSE [cache EXCEPT !.accounts = Append(@, a)]

os_path_exists(path, disk) == IF path = None THEN [exc |-> "TypeError", value |-> FALSE] ELSE [exc |-> NoExc, value |-> disk.exists]

get_accounts(cache) == cache.accounts

(***************************************************************************)
(* The environment of one call: what MSAL and the user answer              *)
(***************************************************************************)
Env == [silent_ok : BOOLEAN,          \* acquire_token_silent finds or redeems a token
        silent_changed : BOOLEAN,     \* ... and modifies the cache while it does
        user_code : BOOLEAN,          \* initiate_device_flow answers with a user_code
        sign_in : Accounts \cup {"error"}]  \* who signs in, or the flow fails

\* the access token the identity provider issues to an account
TokenOf(account) == IF account = "alice" THEN "t1" ELSE "t2"

acquire_token_silent(cache, account, env) ==
    [result |-> IF env.silent_ok THEN TokenResult(TokenOf(account)) ELSE NoneResult,
     cache |-> IF env.silent_changed THEN Modified(cache) ELSE cache]

\* the end of an interactive or device sign-in: a token and an account in the
\* cache, or an error dict and the cache as it was
SignIn(cache, env) ==
    IF env.sign_in = "error"
    THEN [result |-> ErrorResult, cache |-> cache]
    ELSE [result |-> TokenResult(TokenOf(env.sign_in)),
          cache |-> Modified(AddAccount(cache, env.sign_in))]

(***************************************************************************)
(* The two variants of _auth_flow                                          *)
(*                                                                         *)
(* A flow returns [exc, result, cache, events].                            *)
(***************************************************************************)
FlowReturn(s, events) == [exc |-> NoExc, result |-> s.result, cache |-> s.cache, events |-> events]

OsduMsalInteractiveCredential_auth_flow(self, cache, env) ==
    FlowReturn(SignIn(cache, env), <<"_auth_flow", "acquire_token_interactive">>)

\* lines 205-208: the flow initiate_device_flow answers with, and the
\* diagnostics printed when "user_code" is not in it
DeviceFlowBegin(env) ==
    <<"_auth_flow", "initiate_device_flow">>
        \o (IF env.user_code
            THEN <<"flow with user_code">>
            ELSE <<"flow without user_code", "print_failed_user_code", "print_flow">>)

\* The mutant of the device-code flow: the user code is read with a default
\* (flow.get("user_code")), so that a flow without it goes on to the token
\* request.
OsduMsalDeviceCode_auth_flow_Lenient(self, cache, env) ==
    FlowReturn(SignIn(cache, env),
               DeviceFlowBegin(env) \o <<"print_visit", "acquire_token_by_device_flow">>)

OsduMsalDeviceCode_auth_flow(self, cache, env) ==
    IF ~env.user_code
    THEN \* line 209: flow["user_code"] in the f-string
         [exc |-> "KeyError", result |-> NoneResult, cache |-> cache,
          events |-> DeviceFlowBegin(env)]
    ELSE FlowReturn(SignIn(cache, env),
                    DeviceFlowBegin(env) \o <<"print_visit", "acquire_token_by_device_flow">>)

_auth_flow(self, cache, env) ==
    IF self.variant = "OsduMsalDeviceCode"
    THEN OsduMsalDeviceCode_auth_flow(self, cache, env)
    ELSE OsduMsalInteractiveCredential_auth_flow(self, cache, env)

(***************************************************************************)
(* OsduMsalInteractiveCredentialBase                                       *)
(*                                                                         *)
(* A call returns [exc, ret, result, self, fs, cache, silent, accounts,    *)
(* events]: the exception raised, the value returned to the caller, the    *)
(* result mapping of the refresh, the instance and the cache file after    *)
(* the call, and the locals of _refresh_access_token the claims are about  *)
(* (cache, the answer of acquire_token_silent, accounts).                  *)
(***************************************************************************)
\* __init__, with the class attribute __access_token = None
OsduMsalInteractiveCredentialBase(variant, client_id, authority, scopes, token_cache) ==
    [variant |-> variant, client_id |-> client_id, authority |-> authority,
     scopes |-> scopes, token_cache |-> token_cache, access_token |-> None]

Call(exc, result, self, disk, cache, silent, accounts, events) ==
    [exc |-> exc, ret |-> None, result |-> result, self |-> self, fs |-> disk,
     cache |-> cache, silent |-> silent, accounts |-> accounts, events |-> events]

\* lines 137-143: after _auth_flow returned f
_refresh_write_back(self, disk, accounts, silent, f, events) ==
    IF f.exc # NoExc
    THEN Call(f.exc, NoneResult, self, disk, f.cache, silent, accounts, events \o f.events)
    ELSE IF f.cache.has_state_changed
    THEN Call(NoExc, f.result, self, serialize(f.cache), f.cache, silent, accounts,
              events \o f.events \o <<"cachefile.write">>)
    ELSE Call(NoExc, f.result, self, disk, f.cache, silent, accounts, events \o f.events)

\* lines 133-143: s is what the silent acquisition left (result, cache)
_refresh_interactive(self, disk, env, accounts, s, events) ==
    IF Truthy(s.result)
    THEN Call(NoExc, s.result, self, disk, s.cache, s.result, accounts, events)
    ELSE _refresh_write_back(self, disk, accounts, s.result,
                             _auth_flow(self, s.cache, env),
                             events \o <<"print_sign_in_notice">>)

\* lines 118-131
_refresh_silent(self, disk, env, cache, accounts, events) ==
    IF Len(accounts) > 0
    THEN _refresh_interactive(self, disk, env, accounts,
                              acquire_token_silent(cache, accounts[1], env),
                              events \o <<"acquire_token_silent">>)
    ELSE _refresh_interactive(self, disk, env, accounts,
                              [result |-> NoneResult, cache |-> cache], events)

\* lines 114-121: the application over the loaded cache, and its accounts
_refresh_with_cache(self, disk, env, cache, events) ==
    _refresh_silent(self, disk, env, cache, get_accounts(cache), events \o <<"get_accounts">>)

_refresh_access_token(self, disk, env) ==
    IF os_path_exists(self.token_cache, disk).exc # NoExc
    THEN Call(os_path_exists(self.token_cache, disk).exc, NoneResult, self, disk,
              SerializableTokenCache, NoneResult, get_accounts(SerializableTokenCache),
              <<"_refresh_access_token">>)
    ELSE IF os_path_exists(self.token_cache, disk).value
    THEN _refresh_with_cache(self, disk, env, deserialize(SerializableTokenCache, disk),
                             <<"_refresh_access_token", "cache.deserialize">>)
    ELSE _refresh_with_cache(self, disk, env, SerializableTokenCache,
                             <<"_refresh_access_token">>)

\* lines 163-178: r is what _refresh_access_token returned or raised
refresh_store(r) ==
    IF r.exc # NoExc
    THEN r
    ELSE IF r.result.isNone  \* line 163: "preferred_username" in None
    THEN [r EXCEPT !.exc = "TypeError"]
    ELSE IF r.result.access_token # Absent
    THEN [r EXCEPT !.self.access_token = r.result.access_token]
    ELSE [r EXCEPT !.events = @ \o <<"print_error", "print_error_description",
                                     "print_correlation_id">>]

WithEvent(r, e) == [r EXCEPT !.events = <<e>> \o @]

refresh_access_token(self, disk, env) ==
    WithEvent(refresh_store(_refresh_access_token(self, disk, env)), "refresh_access_token")

\* line 86: return self.__access_token
get_token_return(r) ==
    IF r.exc # NoExc THEN r ELSE [r EXCEPT !.ret = r.self.access_token]

\* The mutant of get_token: the commented-out expiry check of line 84 brought
\* back as "refresh only when no token is held".
get_token_Cached(self, disk, env) ==
    IF self.access_token # None
    THEN [Call(NoExc, NoneResult, self, disk, SerializableTokenCache, NoneResult, <<>>,
               <<"get_token">>) EXCEPT !.ret = self.access_token]
    ELSE WithEvent(get_token_return(refresh_access_token(self, disk, env)), "get_token")

get_token(self, disk, env) ==
    WithEvent(get_token_return(refresh_access_token(self, disk, env)), "get_token")

(***************************************************************************)
(* OsduMsalOnBehalfOf                                                      *)
(*                                                                         *)
(* Its get_token returns [exc, ret, inner, post, res, events]: inner is    *)
(* the call on the wrapped credential, post the request that was sent and  *)
(* res the response to it.                                                 *)
(***************************************************************************)
HTTP_OK == 200
\* the status codes the endpoint answers with: success, and an error
StatusCodes == {HTTP_OK, 400}

\* what the token endpoint answers: a status code, and a body that is JSON
\* (with or without "access_token") or is not JSON at all
Responses == {[status_code |-> c, json |-> TRUE, access_token |-> t] :
                  c \in StatusCodes, t \in {"obo-token", Absent}}
             \cup {[status_code |-> c, json |-> FALSE, access_token |-> Absent] :
                  c \in StatusCodes}

NoResponse == [status_code |-> 0, json |-> FALSE, access_token |-> Absent]
\* lines 239-247: the request body
Conf(self, assertion) ==
    [grant_type |-> "urn:ietf:params:oauth:grant-type:jwt-bearer",
     assertion |-> assertion,
     client_id |-> self.interactive_client.client_id,
     client_secret |-> self.client_secret,
     resource |-> self.osdu_resource_id,
     requested_token_use |-> "on_behalf_of",
     scope |-> "openid user_impersonation"]

NoPost ==
    [url |-> <<>>,
     conf |-> [grant_type |-> Absent, assertion |-> Absent, client_id |-> Absent,
               client_secret |-> Absent, resource |-> Absent,
               requested_token_use |-> Absent, scope |-> Absent]]

OsduMsalOnBehalfOf(interactive_client, client_secret, osdu_resource_id) ==
    [interactive_client |-> interactive_client, client_secret |-> client_secret,
     osdu_resource_id |-> osdu_resource_id]

_get_middle_tier_token(self, disk, env) ==
    WithEvent(get_token(self.interactive_client, disk, env), "_get_middle_tier_token")

\* lines 248-250: the request, and the body printed on a status that is not 200
PostEvents(res) ==
    <<"requests.post">> \o (IF res.status_code # HTTP_OK THEN <<"print_res_text">> ELSE <<>>)

\* lines 239-251: m is what _get_middle_tier_token returned or raised
exchange(self, res, m) ==
    IF m.exc # NoExc
    THEN [exc |-> m.exc, ret |-> None, inner |-> m, post |-> NoPost, res |-> NoResponse,
          events |-> m.events]
    ELSE [exc |-> IF ~res.json THEN "JSONDecodeError"
                  ELSE IF res.access_token = Absent THEN "KeyError" ELSE NoExc,
          ret |-> IF res.json /\ res.access_token # Absent THEN res.access_token ELSE None,
          inner |-> m,
          post |-> [url |-> <<self.interactive_client.authority, "/oauth2/token">>,
                    conf |-> Conf(self, m.ret)],
          res |-> res,
          events |-> m.events \o PostEvents(res) \o <<"res.json">>]

\* The mutant of the adapter's get_token: the token is read with a default
\* (res.json().get("access_token")), so that a body without it gives None.
OsduMsalOnBehalfOf_get_token_Get(self, disk, env, res) ==
    [exchange(self, res, _get_middle_tier_token(self, disk, env)) EXCEPT
        !.exc = IF @ = "KeyError" THEN NoExc ELSE @]

OsduMsalOnBehalfOf_get_token(self, disk, env, res) ==
    exchange(self, res, _get_middle_tier_token(self, disk, env))

(***************************************************************************)
(* The credential state machine                                            *)
(***************************************************************************)
Variants == {"OsduMsalInteractiveCredential", "OsduMsalDeviceCode"}
CachePaths == {None, "token_cache.json"}
\* the cache file when the instance is constructed: none yet, or the one an
\* earlier run of the program left, with the account that signed in then
CacheFiles == {NoFile, serialize(Modified(AddAccount(SerializableTokenCache, "alice")))}

\* What the most recent top-level call did; op is "" before the first call.
\* exc and ret are the caller's; inner_exc, inner_ret, result, silent, accounts
\* and changed (cache.has_state_changed when the refresh ended) are those of
\* the credential's get_token, post and res those of the adapter.
NoCall ==
    [op |-> "", token_cache |-> None, prev_token |-> None, exc |-> NoExc, ret |-> None,
     inner_exc |-> NoExc, inner_ret |-> None, result |-> NoneResult,
     silent |-> NoneResult, accounts |-> <<>>, changed |-> FALSE,
     post |-> NoPost, res |-> NoResponse, events |-> <<>>]

CredInit ==
    /\ \E v \in Variants, p \in CachePaths :
          cred = OsduMsalInteractiveCredentialBase(v, "client-id", "https://login/tenant",
                                                   "scope", p)
    /\ fs \in CacheFiles
    /\ calls = 0
    /\ nGetToken = 0
    /\ nRefresh = 0
    /\ last = NoCall

\* a caller calls get_token() on the interactive or device credential
GetToken ==
    /\ calls < MaxCalls
    /\ \E env \in Env :
          \E r \in {get_token(cred, fs, env)} :
              /\ cred' = r.self
              /\ fs' = r.fs
              /\ nGetToken' = nGetToken + Count(r.events, "get_token")
              /\ nRefresh' = nRefresh + Count(r.events, "refresh_access_token")
              /\ last' = [op |-> "get_token", token_cache |-> cred.token_cache,
                          prev_token |-> cred.access_token,
                          exc |-> r.exc, ret |-> r.ret,
                          inner_exc |-> r.exc, inner_ret |-> r.ret, result |-> r.result,
                          silent |-> r.silent, accounts |-> r.accounts,
                          changed |-> r.cache.has_state_changed,
                          post |-> NoPost, res |-> NoResponse, events |-> r.events]
    /\ calls' = calls + 1
    /\ UNCHANGED licenseVars

\* a caller calls get_token() on an on-behalf-of adapter that wraps the credential
OnBehalfOfGetToken ==
    /\ calls < MaxCalls
    /\ \E env \in Env, res \in Responses :
          \E r \in {OsduMsalOnBehalfOf_get_token(
                        OsduMsalOnBehalfOf(cred, "secret", "resource-id"), fs, env, res)} :
              /\ cred' = r.inner.self
              /\ fs' = r.inner.fs
              /\ nGetToken' = nGetToken + Count(r.events, "get_token")
              /\ nRefresh' = nRefresh + Count(r.events, "refresh_access_token")
              /\ last' = [op |-> "on_behalf_of", token_cache |-> cred.token_cache,
                          prev_token |-> cred.access_token,
                          exc |-> r.exc, ret |-> r.ret,
                          inner_exc |-> r.inner.exc, inner_ret |-> r.inner.ret,
                          result |-> r.inner.result,
                          silent |-> r.inner.silent, accounts |-> r.inner.accounts,
                          changed |-> r.inner.cache.has_state_changed,
                          post |-> r.post, res |-> r.res, events |-> r.events]
    /\ calls' = calls + 1
    /\ UNCHANGED licenseVars

(***************************************************************************)
(* scripts/license_verify.py                                               *)
(*                                                                         *)
(* A text is a sequence of lines and a path a sequence of components; the  *)
(* substring tests of the script (header in text, env folder in directory) *)
(* are tests for a contiguous subsequence.                                 *)
(***************************************************************************)
ROOT_DIR == <<"repo">>

PY_LICENSE_HEADER == <<"# Copyright (c) Equinor ASA. All rights reserved.",
                       "# Licensed under the MIT License.">>

env_folders == {ROOT_DIR \o <<".env">>, ROOT_DIR \o <<".tox">>}

\* Python's "pat in text" on sequences
Contains(text, pat) ==
    \E i \in 0..Len(text) :
        /\ i + Len(pat) <= Len(text)
        /\ SubSeq(text, i + 1, i + Len(pat)) = pat

contains_header(text) == Contains(text, PY_LICENSE_HEADER)

\* line 38: the directory is skipped when an env folder's path is in its path
SkippedDir(current_dir) == \E d \in env_folders : Contains(current_dir, d)

\* line 42: a_file.endswith(".py")
IsPy(a_file) == a_file.ext = ".py"

\* lines 38-42: the files whose text the script reads
Scanned(file) == ~SkippedDir(file.dir) /\ IsPy(file.name)

FilePath(file) == file.dir \o <<file.name>>

RECURSIVE WalkFrom_NoLen(_, _)
\* lines 36-48 from the i-th file of the walk on, with the len test left out
WalkFrom_NoLen(files, i) ==
    IF i > Len(files) THEN <<>>
    ELSE (IF Scanned(files[i]) /\ ~contains_header(files[i].text)
          THEN <<<<FilePath(files[i]), files[i].text>>>>
          ELSE <<>>) \o WalkFrom_NoLen(files, i + 1)

RECURSIVE WalkFrom(_, _)

\* lines 36-48 from the i-th file of the walk on
WalkFrom(files, i) ==
    IF i > Len(files) THEN <<>>
    ELSE (IF Scanned(files[i]) /\ Len(files[i].text) > 0 /\ ~contains_header(files[i].text)
          THEN <<<<FilePath(files[i]), files[i].text>>>>
          ELSE <<>>) \o WalkFrom(files, i + 1)

\* The mutant of get_files_without_header: empty files are reported too.
get_files_without_header_NoLen(files) == WalkFrom_NoLen(files, 1)

get_files_without_header(files) == WalkFrom(files, 1)

\* The mutant of main: the list is printed, and the process ends normally.
main_NoExit(files) ==
    LET found == get_files_without_header(files)
    IN  [files_without_header |-> [i \in DOMAIN found |-> found[i][1]], exit_code |-> 0]

main(files) ==
    LET found == get_files_without_header(files)
        paths == [i \in DOMAIN found |-> found[i][1]]
    IN  [files_without_header |-> paths,
         exit_code |-> IF Len(paths) > 0 THEN 1 ELSE 0]

\* the lines a file is made of
Lines == {PY_LICENSE_HEADER[1], PY_LICENSE_HEADER[2], "import os"}

RECURSIVE TextsOfLen(_)
TextsOfLen(n) ==
    IF n = 0 THEN {<<>>}
    ELSE {Append(t, l) : t \in TextsOfLen(n - 1), l \in Lines}

Texts == UNION {TextsOfLen(n) : n \in 0..MaxTextLen}

Dirs == {ROOT_DIR \o <<"src">>, ROOT_DIR \o <<".env", "lib">>}
Exts == {".py", ".md"}

\* the tree that is walked: a Python module under src, and one more file
Trees ==
    {<< [dir |-> ROOT_DIR \o <<"src">>, name |-> [stem |-> "client", ext |-> ".py"], text |-> t1],
        [dir |-> d, name |-> [stem |-> "other", ext |-> e], text |-> t2] >> :
        t1 \in Texts, d \in Dirs, e \in Exts, t2 \in Texts}

LicenseInit ==
    /\ tree \in Trees
    /\ pc = "start"
    /\ files_without_header = <<>>
    /\ exit_code = 0

\* python scripts/license_verify.py
Main ==
    /\ pc = "start"
    /\ LET r == main(tree)
       IN  /\ files_without_header' = r.files_without_header
           /\ exit_code' = r.exit_code
    /\ pc' = "exited"
    /\ UNCHANGED tree
    /\ UNCHANGED credVars

(***************************************************************************)
(* Specifications                                                          *)
(***************************************************************************)
\* the license checker does not run while the credentials are checked
LicenseIdle ==
    /\ tree = <<>>
    /\ pc = "start"
    /\ files_without_header = <<>>
    /\ exit_code = 0

CredIdle ==
    /\ cred = OsduMsalInteractiveCredentialBase("OsduMsalInteractiveCredential", "client-id",
                                                "https://login/tenant", "scope", None)
    /\ fs = NoFile
    /\ calls = 0
    /\ nGetToken = 0
    /\ nRefresh = 0
    /\ last = NoCall

Init == CredInit /\ LicenseIdle

Next == GetToken \/ OnBehalfOfGetToken

Spec == Init /\ [][Next]_vars

LicenseSpecInit == LicenseInit /\ CredIdle

LicenseNext == Main

LicenseSpec == LicenseSpecInit /\ [][LicenseNext]_vars

(***************************************************************************)
(* Properties of the credentials (checked under Spec)                      *)
(***************************************************************************)
Called == last.op # ""
\* the credential's get_token returned to its caller
InnerReturned == Called /\ last.inner_exc = NoExc
AuthFlowCalls == Count(last.events, "_auth_flow")
SilentCalls == Count(last.events, "acquire_token_silent")
Wrote == Has(last.events, "cachefile.write")

C2_FailedRefreshGivesNoToken ==
    (Called /\ ~last.result.isNone /\ last.result.access_token = Absent)
        => (last.inner_exc = NoExc /\ last.inner_ret = None)

\* C3: a refresh that returns has written the cache file if and only if the
\* cache's state changed during that refresh, whichever way the token came.
C3_WriteBackIffChanged ==
    InnerReturned => (Wrote <=> last.changed)

\* C4: in each refresh _auth_flow is invoked once when the cache has no
\* account (and silent acquisition is skipped) or when silent acquisition
\* gives no result, not at all when it gives a result, and never twice.
C4_AuthFlowOncePerRefresh ==
    Called =>
        /\ AuthFlowCalls <= 1
        /\ Len(last.accounts) = 0 => (SilentCalls = 0 /\ AuthFlowCalls = 1)
        /\ (Len(last.accounts) > 0 /\ ~Truthy(last.silent)) => AuthFlowCalls = 1
        /\ Truthy(last.silent) => AuthFlowCalls = 0

\* C4, for the calls that get past the cache-load step (a cache path was given)
C4_AuthFlowOnceWhenCachePathGiven ==
    (Called /\ last.token_cache # None) =>
        /\ AuthFlowCalls <= 1
        /\ Len(last.accounts) = 0 => (SilentCalls = 0 /\ AuthFlowCalls = 1)
        /\ (Len(last.accounts) > 0 /\ ~Truthy(last.silent)) => (SilentCalls = 1 /\ AuthFlowCalls = 1)
        /\ Truthy(last.silent) => (SilentCalls = 1 /\ AuthFlowCalls = 0)

\* C5: the adapter's get_token() returns the response's access_token when the
\* status is 200 and the body holds one, and fails with an error, returning
\* nothing, when the body holds none, whatever the status.
C5_ExchangeReturnsTokenOrFails ==
    (last.op = "on_behalf_of" /\ Has(last.events, "requests.post")) =>
        /\ (last.res.status_code = HTTP_OK /\ last.res.json /\ last.res.access_token # Absent)
              => (last.exc = NoExc /\ last.ret = last.res.access_token)
        /\ (~last.res.json \/ last.res.access_token = Absent)
              => (last.exc \in {"KeyError", "JSONDecodeError"} /\ last.ret = None)
        /\ (last.res.json /\ last.res.access_token = Absent) => last.exc = "KeyError"

\* a 200 response whose JSON body has no access_token
C5_Witness ==
    /\ last.op = "on_behalf_of"
    /\ Has(last.events, "requests.post")
    /\ last.res.status_code = HTTP_OK
    /\ last.res.json
    /\ last.res.access_token = Absent
    /\ last.exc = "KeyError"

\* C8 as claimed: a device flow without user_code is diagnosed and is not
\* fatal; the token request is still made for it.
C8_MissingUserCodeNotFatal ==
    (Called /\ Has(last.events, "flow without user_code")) =>
        /\ Has(last.events, "print_failed_user_code")
        /\ Has(last.events, "acquire_token_by_device_flow")
        /\ last.inner_exc = NoExc

\* C8 as amended: a device flow without user_code is diagnosed (both prints),
\* then the lookup of user_code for the sign-in message raises a key error:
\* the token request is not made and nothing is written to the cache file.
C8_MissingUserCodeRaises ==
    (Called /\ Has(last.events, "flow without user_code")) =>
        /\ Has(last.events, "print_failed_user_code")
        /\ Has(last.events, "print_flow")
        /\ last.inner_exc = "KeyError"
        /\ ~Has(last.events, "print_visit")
        /\ ~Has(last.events, "acquire_token_by_device_flow")
        /\ ~Wrote

\* a device-code refresh whose initiated flow has no user_code
C8_Witness ==
    /\ Called
    /\ cred.variant = "OsduMsalDeviceCode"
    /\ Has(last.events, "flow without user_code")

\* C9: each get_token() of the adapter makes one get_token() on the wrapped
\* credential and then one POST to {authority}/oauth2/token whose assertion
\* is the value that call returned, also when that value is None.
C9_OneInnerCallThenOnePost ==
    last.op = "on_behalf_of" =>
        /\ Count(last.events, "get_token") = 1
        /\ Count(last.events, "requests.post") = 1
        /\ IndexOf(last.events, "get_token") < IndexOf(last.events, "requests.post")
        /\ last.post.url = <<cred.authority, "/oauth2/token">>
        /\ last.post.conf.assertion = last.inner_ret

\* C9, for the calls whose inner get_token() returns
C9_OnePostWhenInnerReturns ==
    (last.op = "on_behalf_of" /\ last.inner_exc = NoExc) =>
        /\ Count(last.events, "get_token") = 1
        /\ Count(last.events, "requests.post") = 1
        /\ IndexOf(last.events, "get_token") < IndexOf(last.events, "requests.post")
        /\ last.post.url = <<cred.authority, "/oauth2/token">>
        /\ last.post.conf.assertion = last.inner_ret

\* C10: a credential constructed without a token cache path refreshes without
\* an error at the cache-load step: the load is skipped and the accounts are
\* enumerated.
C10_NoCachePathSkipsLoad ==
    (Called /\ last.token_cache = None) =>
        /\ ~Has(last.events, "cache.deserialize")
        /\ Has(last.events, "get_accounts")
        /\ last.inner_exc # "TypeError"

(***************************************************************************)
(* Properties of the license checker (checked under LicenseSpec)           *)
(***************************************************************************)
Missing == {files_without_header[i] : i \in DOMAIN files_without_header}

====
